---- MODULE Spec2Model ----
(***************************************************************************)
(* Model of the sqlAssister package (zobstory/sqlAssister): the            *)
(* connection-bound executor (Assister and its methods), the ephemeral     *)
(* executor (the Ephmrl* functions) and the helpers of package utils.      *)
(*                                                                         *)
(* Every operation is a synchronous pass-through to database/sql, so one   *)
(* call is one step.  What the database driver answers to each request is  *)
(* an input of the step (drv); what the operation asked of the driver is   *)
(* recorded, in order, in the call's result (calls).                       *)
(***************************************************************************)
EXTENDS Integers, Sequences, FiniteSets, TLC

\* ---------------------------------------------------------------- bounds
MaxQueryLen == 2
MaxArgs == 2
NumHandles == 2
MaxRows == 2
MaxOpenStmts == 2
MaxThreadArgs == 1

\* ---------------------------------------------------------------- values
Chars == {"a", "b"}
ArgVals == {1, 2}
Handles == 1..NumHandles
RowCounts == 0..MaxRows

RECURSIVE SeqsUpTo(_, _)
SeqsUpTo(S, n) ==
  IF n = 0 THEN {<<>>}
  ELSE LET shorter == SeqsUpTo(S, n - 1)
       IN  shorter \cup {Append(s, x) : s \in shorter, x \in S}

\* A Go value of type any: a scalar, or a []any slice passed as one value.
Scalar(v) == [kind |-> "scalar", n |-> v, elems |-> <<>>]
Slice(s) == [kind |-> "slice", n |-> 0, elems |-> s]

Queries == SeqsUpTo(Chars, MaxQueryLen)
ArgLists == SeqsUpTo({Scalar(v) : v \in ArgVals}, MaxArgs)

\* ---------------------------------------------------------------- errors
\* An error value is the tuple of the parts of its message; nil is <<>>.
Nil == <<>>
ErrBoth == <<"both query / statement & args are not present">>
ErrNoQuery == <<"no query / statement present">>
ErrNoArgs == <<"no args present">>
MismatchErr(rowsAffected, target) ==
  <<"number of rows affected does not match the expected number of rows affected",
    ToString(rowsAffected), ToString(target)>>
DriverErrs == {<<"driver", "bad connection">>, <<"driver", "syntax error">>}
Errs == {Nil} \cup DriverErrs

\* ------------------------------------------------------- returned values
NilPtr == [kind |-> "nil", err |-> Nil]
Void == [kind |-> "void", err |-> Nil]
RowPtr(deferred) == [kind |-> "Row", err |-> deferred]
RowsPtr == [kind |-> "Rows", err |-> Nil]
ResultPtr == [kind |-> "Result", err |-> Nil]

\* (*sql.Row).Scan: the error the query left in the cursor, else sql.ErrNoRows
\* when the query found no row, else nil.
ErrNoRows == <<"sql: no rows in result set">>
RowScan(row, found) ==
  IF row.err # Nil THEN row.err ELSE IF ~found THEN ErrNoRows ELSE Nil

\* One request to database/sql and what came back.
DriverCall(fn, db, query, params, err, rows) ==
  [fn |-> fn, db |-> db, query |-> query, params |-> params, err |-> err, rows |-> rows]

\* What the driver answers to each kind of request during one operation.
Drv(prepare, exec, raErr, rows, query, queryRow) ==
  [prepare |-> prepare, exec |-> exec, rowsAffected |-> raErr, rows |-> rows,
   query |-> query, queryRow |-> queryRow]

\* What an operation hands back: the value, the error, the requests it made,
\* and whether it ended the process instead of returning.
Result(ret, err, calls) == [ret |-> ret, err |-> err, calls |-> calls, exited |-> FALSE]

\* ---------------------------------------------------------- package utils

\* As QueryCheckerWithArgs without its first case: an empty query with no
\* arguments is reported as a missing query only.
QueryCheckerWithArgs_NoBothCase(query, args) ==
  IF Len(query) = 0 THEN ErrNoQuery
  ELSE IF Len(query) > 0 /\ Len(args) = 0 THEN ErrNoArgs
  ELSE Nil

\* args is the variadic slice the function receives.
QueryCheckerWithArgs(query, args) ==
  IF Len(query) = 0 /\ Len(args) = 0 THEN ErrBoth
  ELSE IF Len(query) = 0 /\ Len(args) > 0 THEN ErrNoQuery
  ELSE IF Len(query) > 0 /\ Len(args) = 0 THEN ErrNoArgs
  ELSE Nil

QueryChecker(query) ==
  IF Len(query) = 0 THEN ErrNoQuery ELSE Nil

\* A sql.Result: RowsAffected() answers (rows, err) on handle db.
SqlResult(db, drv) == [db |-> db, err |-> drv.rowsAffected, rows |-> drv.rows]


\* As GetRowsAffected with < for !=: more rows than expected pass.
GetRowsAffected_AcceptsMore(results, targetNumRowsAffected) ==
  LET c == DriverCall("RowsAffected", results.db, <<>>, <<>>, results.err,
                      IF results.err = Nil THEN results.rows ELSE 0)
  IN  IF results.err # Nil THEN Result(Void, results.err, <<c>>)
      ELSE IF results.rows < targetNumRowsAffected
           THEN Result(Void, MismatchErr(results.rows, targetNumRowsAffected), <<c>>)
           ELSE Result(Void, Nil, <<c>>)

\* As GetRowsAffected with log.Fatalf for log.Printf on a mismatch.
GetRowsAffected_Fatal(results, targetNumRowsAffected) ==
  LET c == DriverCall("RowsAffected", results.db, <<>>, <<>>, results.err,
                      IF results.err = Nil THEN results.rows ELSE 0)
  IN  IF results.err # Nil THEN Result(Void, results.err, <<c>>)
      ELSE IF results.rows # targetNumRowsAffected
           THEN [Result(Void, MismatchErr(results.rows, targetNumRowsAffected), <<c>>)
                   EXCEPT !.exited = TRUE]
           ELSE Result(Void, Nil, <<c>>)

GetRowsAffected(results, targetNumRowsAffected) ==
  LET c == DriverCall("RowsAffected", results.db, <<>>, <<>>, results.err,
                      IF results.err = Nil THEN results.rows ELSE 0)
  IN  IF results.err # Nil THEN Result(Void, results.err, <<c>>)
      ELSE IF results.rows # targetNumRowsAffected
           THEN Result(Void, MismatchErr(results.rows, targetNumRowsAffected), <<c>>)
           ELSE Result(Void, Nil, <<c>>)

\* ------------------------------------------- connection-bound executor
New(db) == [DB |-> db]


\* As UpdateSingleRow without the check of Exec's error: the rows-affected
\* check runs on whatever Exec returned.
UpdateSingleRow_IgnoresExecErr(a, query, args, drv) ==
  LET prep == DriverCall("Prepare", a.DB, query, <<>>, drv.prepare, 0)
      exec == DriverCall("StmtExec", a.DB, query, args, drv.exec, 0)
  IN  IF drv.prepare # Nil THEN Result(Void, drv.prepare, <<prep>>)
      ELSE LET g == GetRowsAffected(SqlResult(a.DB, drv), 1)
           IN  Result(Void, g.err, <<prep, exec>> \o g.calls)

\* As UpdateSingleRow with a deferred ac.DB.Close().
UpdateSingleRow_ClosesHandle(a, query, args, drv) ==
  LET prep == DriverCall("Prepare", a.DB, query, <<>>, drv.prepare, 0)
      exec == DriverCall("StmtExec", a.DB, query, args, drv.exec, 0)
      close == DriverCall("Close", a.DB, <<>>, <<>>, Nil, 0)
  IN  IF drv.prepare # Nil THEN Result(Void, drv.prepare, <<prep, close>>)
      ELSE IF drv.exec # Nil THEN Result(Void, drv.exec, <<prep, exec, close>>)
      ELSE LET g == GetRowsAffected(SqlResult(a.DB, drv), 1)
           IN  Result(Void, g.err, <<prep, exec>> \o g.calls \o <<close>>)

UpdateSingleRow(a, query, args, drv) ==
  LET prep == DriverCall("Prepare", a.DB, query, <<>>, drv.prepare, 0)
      exec == DriverCall("StmtExec", a.DB, query, args, drv.exec, 0)
  IN  IF drv.prepare # Nil THEN Result(Void, drv.prepare, <<prep>>)
      ELSE IF drv.exec # Nil THEN Result(Void, drv.exec, <<prep, exec>>)
      ELSE LET g == GetRowsAffected(SqlResult(a.DB, drv), 1)
           IN  Result(Void, g.err, <<prep, exec>> \o g.calls)

\* As SingleRowScanner with the driver's error looked up at once (row.Err())
\* and returned in place of the cursor.
SingleRowScanner_ChecksRowErr(a, query, drv) ==
  LET err == QueryChecker(query)
      q == DriverCall("QueryRow", a.DB, query, <<>>, drv.queryRow, 0)
  IN  IF err # Nil THEN Result(NilPtr, err, <<>>)
      ELSE IF drv.queryRow # Nil THEN Result(NilPtr, drv.queryRow, <<q>>)
      ELSE Result(RowPtr(drv.queryRow), Nil, <<q>>)

SingleRowScanner(a, query, drv) ==
  LET err == QueryChecker(query)
  IN  IF err # Nil THEN Result(NilPtr, err, <<>>)
      ELSE Result(RowPtr(drv.queryRow), Nil,
                  <<DriverCall("QueryRow", a.DB, query, <<>>, drv.queryRow, 0)>>)

\* utils.QueryCheckerWithArgs(query, args): the slice is passed as ONE value.
SingleRowScannerWithArgs(a, query, args, drv) ==
  LET err == QueryCheckerWithArgs(query, <<Slice(args)>>)
  IN  IF err # Nil THEN Result(NilPtr, err, <<>>)
      ELSE Result(RowPtr(drv.queryRow), Nil,
                  <<DriverCall("QueryRow", a.DB, query, args, drv.queryRow, 0)>>)

\* utils.QueryCheckerWithArgs(query): no variadic value at all.
MultipleRowScanner(a, query, drv) ==
  LET err == QueryCheckerWithArgs(query, <<>>)
      q == DriverCall("Query", a.DB, query, <<>>, drv.query, 0)
  IN  IF err # Nil THEN Result(NilPtr, err, <<>>)
      ELSE IF drv.query # Nil THEN Result(NilPtr, drv.query, <<q>>)
      ELSE Result(RowsPtr, Nil, <<q>>)


\* As MultipleRowScannerWithArgs with "return rows, err" after Query.
MultipleRowScannerWithArgs_ReturnsBoth(a, query, args, drv) ==
  LET err == QueryCheckerWithArgs(query, <<Slice(args)>>)
      q == DriverCall("Query", a.DB, query, args, drv.query, 0)
  IN  IF err # Nil THEN Result(NilPtr, err, <<>>)
      ELSE Result(RowsPtr, drv.query, <<q>>)

MultipleRowScannerWithArgs(a, query, args, drv) ==
  LET err == QueryCheckerWithArgs(query, <<Slice(args)>>)
      q == DriverCall("Query", a.DB, query, args, drv.query, 0)
  IN  IF err # Nil THEN Result(NilPtr, err, <<>>)
      ELSE IF drv.query # Nil THEN Result(NilPtr, drv.query, <<q>>)
      ELSE Result(RowsPtr, Nil, <<q>>)

\* A panic: the operation does not return; the goroutine is torn down.
Panic(calls) == [Result(NilPtr, Nil, calls) EXCEPT !.exited = TRUE]
ValuePtr == [kind |-> "Value", err |-> Nil]

\* The loop of ScanStruct from field i on.  Each round calls
\* ac.SingleRowScannerWithArgs("") and only logs its error, then calls
\* row.Scan(&z) on whatever came back: on a nil *sql.Row that is a nil
\* dereference.  vals is reflect.ValueOf of a struct value, which is not
\* addressable, so vals.Field(i).Set panics as well.
RECURSIVE ScanStructFrom(_, _, _, _, _, _)
ScanStructFrom(a, fields, i, drv, found, calls) ==
  IF i > Len(fields) THEN Result(ValuePtr, Nil, calls)
  ELSE LET r == SingleRowScannerWithArgs(a, <<>>, <<>>, drv)
           sofar == calls \o r.calls
       IN  IF r.ret = NilPtr THEN Panic(sofar)
           ELSE LET err == RowScan(r.ret, found)
                IN  IF err # Nil THEN Result(NilPtr, err, sofar)
                    ELSE Panic(sofar)

\* fields: the fields of the struct value arg.
ScanStruct(a, fields, drv, found) == ScanStructFrom(a, fields, 1, drv, found, <<>>)

\* --------------------------------------------------- ephemeral executor
EphmrlUpdateSingleRow(db, statement, args, drv) ==
  LET err == QueryCheckerWithArgs(statement, <<Slice(args)>>)
      exec == DriverCall("Exec", db, statement, args, drv.exec, 0)
  IN  IF err # Nil THEN Result(NilPtr, err, <<>>)
      ELSE IF drv.exec # Nil THEN Result(NilPtr, drv.exec, <<exec>>)
      ELSE LET g == GetRowsAffected(SqlResult(db, drv), 1)
           IN  IF g.err # Nil THEN Result(NilPtr, g.err, <<exec>> \o g.calls)
               ELSE Result(ResultPtr, Nil, <<exec>> \o g.calls)

EphmrlSingleRowScannerWithArgs(db, query, args, drv) ==
  LET err == QueryCheckerWithArgs(query, <<Slice(args)>>)
  IN  IF err # Nil THEN Result(NilPtr, err, <<>>)
      ELSE Result(RowPtr(drv.queryRow), Nil,
                  <<DriverCall("QueryRow", db, query, args, drv.queryRow, 0)>>)

EphmrlSingleRowScanner(db, query, drv) ==
  LET err == QueryChecker(query)
  IN  IF err # Nil THEN Result(NilPtr, err, <<>>)
      ELSE Result(RowPtr(drv.queryRow), Nil,
                  <<DriverCall("QueryRow", db, query, <<>>, drv.queryRow, 0)>>)

EphmrlMultipleRowScanner(db, query, drv) ==
  LET err == QueryChecker(query)
      q == DriverCall("Query", db, query, <<>>, drv.query, 0)
  IN  IF err # Nil THEN Result(NilPtr, err, <<>>)
      ELSE IF drv.query # Nil THEN Result(NilPtr, drv.query, <<q>>)
      ELSE Result(RowsPtr, Nil, <<q>>)

\* db.Query(query, args): the slice reaches the driver as ONE parameter.
EphmrlMultipleRowScannerWithArgs(db, query, args, drv) ==
  LET err == QueryCheckerWithArgs(query, <<Slice(args)>>)
      q == DriverCall("Query", db, query, <<Slice(args)>>, drv.query, 0)
  IN  IF err # Nil THEN Result(NilPtr, err, <<>>)
      ELSE IF drv.query # Nil THEN Result(NilPtr, drv.query, <<q>>)
      ELSE Result(RowsPtr, Nil, <<q>>)

\* ------------------------------------------------------------------ state
VARIABLES
  ac,          \* the Assister built by New
  suppliedDB,  \* the handle the caller gave to New
  openStmts,   \* prepared statements open on ac.DB
  pc,          \* "idle": the caller may call; "done": a call has returned
  last,        \* the call that has just returned
  scan,        \* what the caller's row.Scan of the returned cursor gave
  frames       \* per goroutine: the method call it is in the middle of

vars == <<ac, suppliedDB, openStmts, pc, last, scan, frames>>

QuietDrv == Drv(Nil, Nil, Nil, 0, Nil, Nil)
NoCall ==
  [op |-> "none", db |-> 0, query |-> <<>>, args |-> <<>>, target |-> 0,
   drv |-> QuietDrv, res |-> Result(Void, Nil, <<>>)]

NoScan == [done |-> FALSE, found |-> FALSE, err |-> Nil]

\* Goroutines that share the one Assister.
Threads == {"t1", "t2"}
IdleFrame ==
  [op |-> "none", a |-> New(0), query |-> <<>>, args |-> <<>>, at |-> "idle",
   drv |-> QuietDrv, calls |-> <<>>, ret |-> Void, err |-> Nil]

\* Statements a call left open: prepared and never closed.
RECURSIVE StmtsLeftOpen(_)
StmtsLeftOpen(calls) ==
  IF calls = <<>> THEN 0
  ELSE StmtsLeftOpen(Tail(calls))
       + (IF Head(calls).fn = "Prepare" /\ Head(calls).err = Nil THEN 1 ELSE 0)
       - (IF Head(calls).fn = "StmtClose" THEN 1 ELSE 0)

Init ==
  /\ suppliedDB \in Handles
  /\ ac = New(suppliedDB)
  /\ openStmts = 0
  /\ pc = "idle"
  /\ last = NoCall
  /\ scan = NoScan
  /\ frames = [t \in Threads |-> IdleFrame]

Returns(op, db, query, args, target, drv, res) ==
  /\ pc' = "done"
  /\ last' = [op |-> op, db |-> db, query |-> query, args |-> args,
              target |-> target, drv |-> drv, res |-> res]
  /\ openStmts' = openStmts + StmtsLeftOpen(res.calls)
  /\ UNCHANGED <<ac, suppliedDB, scan, frames>>

CallUpdateSingleRow ==
  /\ pc = "idle"
  /\ openStmts < MaxOpenStmts
  /\ \E query \in Queries, args \in ArgLists, pe \in Errs, ee \in Errs, re \in Errs,
       n \in RowCounts :
      LET drv == Drv(pe, ee, re, n, Nil, Nil)
      IN  Returns("UpdateSingleRow", ac.DB, query, args, 1, drv,
                  UpdateSingleRow(ac, query, args, drv))

CallSingleRowScanner ==
  /\ pc = "idle"
  /\ \E query \in Queries, qe \in Errs :
      LET drv == Drv(Nil, Nil, Nil, 0, Nil, qe)
      IN  Returns("SingleRowScanner", ac.DB, query, <<>>, 0, drv,
                  SingleRowScanner(ac, query, drv))

CallSingleRowScannerWithArgs ==
  /\ pc = "idle"
  /\ \E query \in Queries, args \in ArgLists, qe \in Errs :
      LET drv == Drv(Nil, Nil, Nil, 0, Nil, qe)
      IN  Returns("SingleRowScannerWithArgs", ac.DB, query, args, 0, drv,
                  SingleRowScannerWithArgs(ac, query, args, drv))

CallMultipleRowScanner ==
  /\ pc = "idle"
  /\ \E query \in Queries, qe \in Errs :
      LET drv == Drv(Nil, Nil, Nil, 0, qe, Nil)
      IN  Returns("MultipleRowScanner", ac.DB, query, <<>>, 0, drv,
                  MultipleRowScanner(ac, query, drv))

CallMultipleRowScannerWithArgs ==
  /\ pc = "idle"
  /\ \E query \in Queries, args \in ArgLists, qe \in Errs :
      LET drv == Drv(Nil, Nil, Nil, 0, qe, Nil)
      IN  Returns("MultipleRowScannerWithArgs", ac.DB, query, args, 0, drv,
                  MultipleRowScannerWithArgs(ac, query, args, drv))

CallEphmrlUpdateSingleRow ==
  /\ pc = "idle"
  /\ \E db \in Handles, query \in Queries, args \in ArgLists, ee \in Errs, re \in Errs,
       n \in RowCounts :
      LET drv == Drv(Nil, ee, re, n, Nil, Nil)
      IN  Returns("EphmrlUpdateSingleRow", db, query, args, 1, drv,
                  EphmrlUpdateSingleRow(db, query, args, drv))

CallEphmrlSingleRowScannerWithArgs ==
  /\ pc = "idle"
  /\ \E db \in Handles, query \in Queries, args \in ArgLists, qe \in Errs :
      LET drv == Drv(Nil, Nil, Nil, 0, Nil, qe)
      IN  Returns("EphmrlSingleRowScannerWithArgs", db, query, args, 0, drv,
                  EphmrlSingleRowScannerWithArgs(db, query, args, drv))

CallEphmrlSingleRowScanner ==
  /\ pc = "idle"
  /\ \E db \in Handles, query \in Queries, qe \in Errs :
      LET drv == Drv(Nil, Nil, Nil, 0, Nil, qe)
      IN  Returns("EphmrlSingleRowScanner", db, query, <<>>, 0, drv,
                  EphmrlSingleRowScanner(db, query, drv))

CallEphmrlMultipleRowScanner ==
  /\ pc = "idle"
  /\ \E db \in Handles, query \in Queries, qe \in Errs :
      LET drv == Drv(Nil, Nil, Nil, 0, qe, Nil)
      IN  Returns("EphmrlMultipleRowScanner", db, query, <<>>, 0, drv,
                  EphmrlMultipleRowScanner(db, query, drv))

CallEphmrlMultipleRowScannerWithArgs ==
  /\ pc = "idle"
  /\ \E db \in Handles, query \in Queries, args \in ArgLists, qe \in Errs :
      LET drv == Drv(Nil, Nil, Nil, 0, qe, Nil)
      IN  Returns("EphmrlMultipleRowScannerWithArgs", db, query, args, 0, drv,
                  EphmrlMultipleRowScannerWithArgs(db, query, args, drv))

CallScanStruct ==
  /\ pc = "idle"
  /\ \E fields \in ArgLists, qe \in Errs, found \in BOOLEAN :
      LET drv == Drv(Nil, Nil, Nil, 0, Nil, qe)
      IN  Returns("ScanStruct", ac.DB, <<>>, fields, 0, drv,
                  ScanStruct(ac, fields, drv, found))

\* The helpers of package utils are exported and can be called directly.
CallQueryCheckerWithArgs ==
  /\ pc = "idle"
  /\ \E query \in Queries, args \in ArgLists :
      Returns("QueryCheckerWithArgs", 0, query, args, 0, QuietDrv,
              Result(Void, QueryCheckerWithArgs(query, args), <<>>))

CallQueryChecker ==
  /\ pc = "idle"
  /\ \E query \in Queries :
      Returns("QueryChecker", 0, query, <<>>, 0, QuietDrv,
              Result(Void, QueryChecker(query), <<>>))

CallGetRowsAffected ==
  /\ pc = "idle"
  /\ \E db \in Handles, re \in Errs, n \in RowCounts, target \in RowCounts :
      LET drv == Drv(Nil, Nil, re, n, Nil, Nil)
      IN  Returns("GetRowsAffected", db, <<>>, <<>>, target, drv,
                  GetRowsAffected(SqlResult(db, drv), target))

\* The caller scans the single-row cursor it was given: err = row.Scan(...).
CallerScansRow ==
  /\ pc = "done"
  /\ last.res.ret.kind = "Row"
  /\ ~scan.done
  /\ \E found \in BOOLEAN :
       scan' = [done |-> TRUE, found |-> found, err |-> RowScan(last.res.ret, found)]
  /\ UNCHANGED <<ac, suppliedDB, openStmts, pc, last, frames>>

\* The caller has looked at what came back and is ready for its next call.
CallerDone ==
  /\ pc = "done"
  /\ pc' = "idle"
  /\ last' = NoCall
  /\ scan' = NoScan
  /\ UNCHANGED <<ac, suppliedDB, openStmts, frames>>

Next ==
  \/ CallUpdateSingleRow
  \/ CallSingleRowScanner
  \/ CallSingleRowScannerWithArgs
  \/ CallMultipleRowScanner
  \/ CallMultipleRowScannerWithArgs
  \/ CallScanStruct
  \/ CallEphmrlUpdateSingleRow
  \/ CallEphmrlSingleRowScannerWithArgs
  \/ CallEphmrlSingleRowScanner
  \/ CallEphmrlMultipleRowScanner
  \/ CallEphmrlMultipleRowScannerWithArgs
  \/ CallQueryCheckerWithArgs
  \/ CallQueryChecker
  \/ CallGetRowsAffected
  \/ CallerScansRow
  \/ CallerDone

Spec == Init /\ [][Next]_vars

\* ------------------------------------------------- goroutines, step by step
\* The methods of one Assister called from several goroutines at once: every
\* check and every request to database/sql is a step of its own, and steps of
\* different goroutines interleave.  A method has a value receiver, so it
\* works on the copy of the Assister taken when it was called.
BoundOpNames ==
  {"UpdateSingleRow", "SingleRowScanner", "SingleRowScannerWithArgs",
   "MultipleRowScanner", "MultipleRowScannerWithArgs"}
ThreadQueries == {<<>>, <<"a">>}
ThreadArgLists == SeqsUpTo({Scalar(v) : v \in ArgVals}, MaxThreadArgs)

\* The check a scanner method starts with.
ValidationOf(op, query, args) ==
  CASE op = "SingleRowScanner" -> QueryChecker(query)
    [] op = "SingleRowScannerWithArgs" -> QueryCheckerWithArgs(query, <<Slice(args)>>)
    [] op = "MultipleRowScanner" -> QueryCheckerWithArgs(query, <<>>)
    [] op = "MultipleRowScannerWithArgs" -> QueryCheckerWithArgs(query, <<Slice(args)>>)

Step(t, f) ==
  /\ frames' = [frames EXCEPT ![t] = f]
  /\ UNCHANGED <<ac, suppliedDB, pc, last, scan>>

TBegin(t) ==
  /\ frames[t].at = "idle"
  /\ \E op \in BoundOpNames, query \in ThreadQueries, args \in ThreadArgLists :
       /\ op \in {"SingleRowScanner", "MultipleRowScanner"} => args = <<>>
       /\ Step(t, [IdleFrame EXCEPT
                     !.op = op, !.a = ac, !.query = query, !.args = args,
                     !.at = IF op = "UpdateSingleRow" THEN "prepare" ELSE "validate"])
  /\ UNCHANGED openStmts

TValidate(t) ==
  LET f == frames[t]
      err == ValidationOf(f.op, f.query, f.args)
  IN  /\ f.at = "validate"
      /\ IF err # Nil
         THEN Step(t, [f EXCEPT !.ret = NilPtr, !.err = err, !.at = "ret"])
         ELSE Step(t, [f EXCEPT !.at =
                         IF f.op \in {"SingleRowScanner", "SingleRowScannerWithArgs"}
                         THEN "queryRow" ELSE "query"])
      /\ UNCHANGED openStmts

TPrepare(t) ==
  LET f == frames[t]
  IN  /\ f.at = "prepare"
      /\ openStmts < MaxOpenStmts
      /\ \E e \in Errs :
           LET c == DriverCall("Prepare", f.a.DB, f.query, <<>>, e, 0)
               g == [f EXCEPT !.calls = Append(@, c), !.drv.prepare = e]
           IN  IF e # Nil
               THEN /\ Step(t, [g EXCEPT !.err = e, !.at = "ret"])
                    /\ UNCHANGED openStmts
               ELSE /\ Step(t, [g EXCEPT !.at = "exec"])
                    /\ openStmts' = openStmts + 1

TExec(t) ==
  LET f == frames[t]
  IN  /\ f.at = "exec"
      /\ \E e \in Errs :
           LET c == DriverCall("StmtExec", f.a.DB, f.query, f.args, e, 0)
               g == [f EXCEPT !.calls = Append(@, c), !.drv.exec = e]
           IN  IF e # Nil
               THEN Step(t, [g EXCEPT !.err = e, !.at = "ret"])
               ELSE Step(t, [g EXCEPT !.at = "rowsAffected"])
      /\ UNCHANGED openStmts

TRowsAffected(t) ==
  LET f == frames[t]
  IN  /\ f.at = "rowsAffected"
      /\ \E e \in Errs, n \in RowCounts :
           LET c == DriverCall("RowsAffected", f.a.DB, <<>>, <<>>, e, n)
               g == [f EXCEPT !.calls = Append(@, c), !.drv.rowsAffected = e,
                              !.drv.rows = n, !.at = "ret"]
           IN  /\ e # Nil => n = 0
               /\ Step(t, [g EXCEPT !.err =
                             IF e # Nil THEN e
                             ELSE IF n # 1 THEN MismatchErr(n, 1) ELSE Nil])
      /\ UNCHANGED openStmts

TQuery(t) ==
  LET f == frames[t]
  IN  /\ f.at = "query"
      /\ \E e \in Errs :
           LET c == DriverCall("Query", f.a.DB, f.query, f.args, e, 0)
               g == [f EXCEPT !.calls = Append(@, c), !.drv.query = e, !.at = "ret"]
           IN  IF e # Nil
               THEN Step(t, [g EXCEPT !.ret = NilPtr, !.err = e])
               ELSE Step(t, [g EXCEPT !.ret = RowsPtr])
      /\ UNCHANGED openStmts

TQueryRow(t) ==
  LET f == frames[t]
  IN  /\ f.at = "queryRow"
      /\ \E e \in Errs :
           LET c == DriverCall("QueryRow", f.a.DB, f.query, f.args, e, 0)
           IN  Step(t, [f EXCEPT !.calls = Append(@, c), !.drv.queryRow = e,
                                 !.ret = RowPtr(e), !.at = "ret"])
      /\ UNCHANGED openStmts

\* As TReturn for a method that clears the handle of the shared Assister
\* when it is done (a pointer receiver and ac.DB = nil).
TReturn_ClearsHandle(t) ==
  /\ frames[t].at = "ret"
  /\ frames' = [frames EXCEPT ![t] = IdleFrame]
  /\ ac' = New(0)
  /\ UNCHANGED <<suppliedDB, pc, last, scan, openStmts>>

TReturn(t) ==
  /\ frames[t].at = "ret"
  /\ Step(t, IdleFrame)
  /\ UNCHANGED openStmts

NextThreads ==
  \E t \in Threads :
    \/ TBegin(t)
    \/ TValidate(t)
    \/ TPrepare(t)
    \/ TExec(t)
    \/ TRowsAffected(t)
    \/ TQuery(t)
    \/ TQueryRow(t)
    \/ TReturn(t)

SpecThreads == Init /\ [][NextThreads]_vars

\* ------------------------------------------------------------ vocabulary
BoundOps ==
  {"UpdateSingleRow", "SingleRowScanner", "SingleRowScannerWithArgs",
   "MultipleRowScanner", "MultipleRowScannerWithArgs"}
EphmrlOps ==
  {"EphmrlUpdateSingleRow", "EphmrlSingleRowScanner", "EphmrlSingleRowScannerWithArgs",
   "EphmrlMultipleRowScanner", "EphmrlMultipleRowScannerWithArgs"}
Ops == BoundOps \cup EphmrlOps
Returned(ops) == pc = "done" /\ last.op \in ops

TypeOK ==
  /\ suppliedDB \in Handles
  /\ ac.DB \in Handles
  /\ openStmts \in 0..MaxOpenStmts
  /\ pc \in {"idle", "done"}
  /\ last.op \in Ops \cup {"none", "QueryCheckerWithArgs", "QueryChecker", "GetRowsAffected",
                           "ScanStruct"}
  /\ scan.done \in BOOLEAN

UpdateOps == {"UpdateSingleRow", "EphmrlUpdateSingleRow"}
ScanManyOps ==
  {"MultipleRowScanner", "MultipleRowScannerWithArgs",
   "EphmrlMultipleRowScanner", "EphmrlMultipleRowScannerWithArgs"}
WithArgsOps ==
  {"SingleRowScannerWithArgs", "MultipleRowScannerWithArgs",
   "EphmrlSingleRowScannerWithArgs", "EphmrlMultipleRowScannerWithArgs"}
PairOps == Ops \ {"UpdateSingleRow"}

\* ------------------------------------------------------------------ C1
\* C1: every operation called with an empty query returns a validation error
\* of the library that reports the missing query, not a driver's answer.
C1_EmptyQueryIsRejected ==
  (Returned(Ops) /\ last.query = <<>>)
    => (last.res.err \in {ErrNoQuery, ErrBoth} /\ last.res.calls = <<>>)

\* ------------------------------------------------------------------ C2
\* C2: a with-args operation called with a non-empty query and zero
\* arguments returns the "missing arguments" error and no cursor.
C2_ZeroArgsIsRejected ==
  (Returned(WithArgsOps) /\ Len(last.query) > 0 /\ last.args = <<>>)
    => (last.res.err = ErrNoArgs /\ last.res.ret = NilPtr)

\* ------------------------------------------------------------------ C3
\* C3: an update whose prepare and execute succeeded and for which the driver
\* reports n affected rows returns success when n = 1 and the rows-affected
\* mismatch error when n = 0 or n > 1.
C3_UpdateChecksOneRow ==
  Returned(UpdateOps) =>
    \A i \in 1..Len(last.res.calls) :
      LET c == last.res.calls[i]
      IN  (c.fn = "RowsAffected" /\ c.err = Nil) =>
            /\ (c.rows = 1 => last.res.err = Nil)
            /\ (c.rows # 1 => last.res.err = MismatchErr(c.rows, 1))

C3_Witness ==
  /\ Returned(UpdateOps)
  /\ Len(last.res.calls) >= 2
  /\ last.res.calls[Len(last.res.calls)].fn = "RowsAffected"
  /\ last.res.calls[Len(last.res.calls)].err = Nil
  /\ last.res.calls[Len(last.res.calls)].rows = 2
  /\ last.res.err = MismatchErr(2, 1)

\* ------------------------------------------------------------------ C4
\* C4: MultipleRowScanner, called with a non-empty query that the driver's
\* Query accepts, returns the multi-row cursor and a nil error.
C4_MultipleRowScannerReturnsRows ==
  (Returned({"MultipleRowScanner"}) /\ Len(last.query) > 0 /\ last.drv.query = Nil)
    => (last.res.ret = RowsPtr /\ last.res.err = Nil)

\* ------------------------------------------------------------------ C5
\* What a caller can tell of a result: success or not, a cursor or not, and
\* the kind of its error.
ErrKind(err) ==
  IF err = Nil THEN "nil" ELSE IF err \in DriverErrs THEN "driver" ELSE err[1]
Outcome(res) ==
  [cursor |-> res.ret.kind \in {"Row", "Rows"}, err |-> ErrKind(res.err),
   driverErr |-> IF res.err \in DriverErrs THEN res.err ELSE Nil]
\* The requests of a call, without the driver's answers.
Requests(calls) ==
  [i \in 1..Len(calls) |->
     [fn |-> IF calls[i].fn = "StmtExec" THEN "Exec" ELSE calls[i].fn,
      db |-> calls[i].db, query |-> calls[i].query, params |-> calls[i].params]]
\* The method of New(db) named as the Ephmrl function op.
BoundCounterpart(op, db, query, args, drv) ==
  CASE op = "EphmrlUpdateSingleRow" -> UpdateSingleRow(New(db), query, args, drv)
    [] op = "EphmrlSingleRowScanner" -> SingleRowScanner(New(db), query, drv)
    [] op = "EphmrlSingleRowScannerWithArgs" ->
         SingleRowScannerWithArgs(New(db), query, args, drv)
    [] op = "EphmrlMultipleRowScanner" -> MultipleRowScanner(New(db), query, drv)
    [] op = "EphmrlMultipleRowScannerWithArgs" ->
         MultipleRowScannerWithArgs(New(db), query, args, drv)

\* C5: each Ephmrl function called with handle db returns the same outcome
\* and issues the same driver requests, with the same parameters, as the
\* method of the same name of New(db).  (A statement prepared and then
\* executed counts as the same request as one executed directly, apart from
\* the Prepare itself.)
C5_EphmrlSameAsBound ==
  Returned(EphmrlOps) =>
    LET b == BoundCounterpart(last.op, last.db, last.query, last.args, last.drv)
        sameExec(r) == SelectSeq(r, LAMBDA c : c.fn # "Prepare")
    IN  /\ Outcome(last.res) = Outcome(b)
        /\ sameExec(Requests(last.res.calls)) = sameExec(Requests(b.calls))

\* ------------------------------------------------------------------ C6
\* C6: in an update or scan-many operation, a driver call that fails is the
\* last driver call of the operation, and the operation returns that very
\* error (so never success, and nothing is retried).
C6_DriverFailureIsReturnedAtOnce ==
  Returned(UpdateOps \cup ScanManyOps) =>
    \A i \in 1..Len(last.res.calls) :
      last.res.calls[i].err # Nil =>
        /\ i = Len(last.res.calls)
        /\ last.res.err = last.res.calls[i].err

C6_Witness ==
  /\ Returned({"UpdateSingleRow"})
  /\ Len(last.res.calls) = 2
  /\ last.res.calls[2].fn = "StmtExec"
  /\ last.res.calls[2].err \in DriverErrs
  /\ last.res.err = last.res.calls[2].err

\* ------------------------------------------------------------------ C7
\* C7: an operation that returns a (cursor-or-result, error) pair returns
\* exactly one of the two: the value is nil exactly when the error is not.
C7_ValueXorError ==
  Returned(PairOps) => (last.res.ret = NilPtr <=> last.res.err # Nil)

C7_Witness ==
  /\ Returned({"MultipleRowScannerWithArgs"})
  /\ Len(last.res.calls) = 1
  /\ last.res.err \in DriverErrs
  /\ last.res.ret = NilPtr

\* ------------------------------------------------------------------ C8
\* C8: the Assister keeps the handle it was given: at any time the stored
\* handle is the one supplied to New, every request of a method went to that
\* handle, and no method has closed it.
C8_HandleIsBorrowed ==
  /\ ac.DB = suppliedDB
  /\ Returned(BoundOps) =>
       /\ last.db = suppliedDB
       /\ \A i \in 1..Len(last.res.calls) :
            /\ last.res.calls[i].db = suppliedDB
            /\ last.res.calls[i].fn # "Close"

C8_Witness ==
  /\ Returned({"UpdateSingleRow"})
  /\ Len(last.res.calls) = 3
  /\ last.res.err = Nil
  /\ openStmts > 0
  /\ ac.DB = suppliedDB

\* ------------------------------------------------------------------ C9
\* C9: GetRowsAffected(results, target) returns nil exactly when
\* results.RowsAffected() succeeds with target rows; it returns the driver's
\* error when RowsAffected() fails, and the mismatch error, as a value and
\* without ending the program, when the count differs.
C9_GetRowsAffected ==
  Returned({"GetRowsAffected"}) =>
    LET raErr == last.drv.rowsAffected
        rows == last.drv.rows
    IN  /\ last.res.err = Nil <=> (raErr = Nil /\ rows = last.target)
        /\ raErr # Nil => last.res.err = raErr
        /\ (raErr = Nil /\ rows # last.target)
             => last.res.err = MismatchErr(rows, last.target)
        /\ ~last.res.exited

C9_Witness ==
  /\ Returned({"GetRowsAffected"})
  /\ last.drv.rowsAffected = Nil
  /\ last.drv.rows # last.target
  /\ last.res.err = MismatchErr(last.drv.rows, last.target)

\* ----------------------------------------------------------------- C10
\* C10: QueryCheckerWithArgs returns nil exactly when the query is non-empty
\* and there is at least one argument, and otherwise one of three distinct
\* errors (both missing, query missing, arguments missing); QueryChecker
\* returns an error exactly when the query is empty.
C10_QueryCheckers ==
  /\ Returned({"QueryCheckerWithArgs"}) =>
       /\ last.res.err = Nil <=> (Len(last.query) > 0 /\ Len(last.args) > 0)
       /\ (Len(last.query) = 0 /\ Len(last.args) = 0) => last.res.err = ErrBoth
       /\ (Len(last.query) = 0 /\ Len(last.args) > 0) => last.res.err = ErrNoQuery
       /\ (Len(last.query) > 0 /\ Len(last.args) = 0) => last.res.err = ErrNoArgs
       /\ Cardinality({ErrBoth, ErrNoQuery, ErrNoArgs}) = 3
  /\ Returned({"QueryChecker"}) =>
       (last.res.err # Nil <=> Len(last.query) = 0)

C10_Witness ==
  /\ Returned({"QueryCheckerWithArgs"})
  /\ Len(last.query) = 0
  /\ Len(last.args) = 0
  /\ last.res.err = ErrBoth

\* ----------------------------------------------------------------- C11
ValidationErrs == {ErrBoth, ErrNoQuery, ErrNoArgs}

\* C11: validation precedes execution: no operation hands an empty query to
\* the driver, and an operation that returns a validation error (missing
\* query or missing arguments) has made no driver call.
C11_ValidationPrecedesExecution ==
  Returned(Ops) =>
    /\ \A i \in 1..Len(last.res.calls) :
         last.res.calls[i].fn \in {"Prepare", "Exec", "Query", "QueryRow"}
           => last.res.calls[i].query # <<>>
    /\ last.res.err \in ValidationErrs => last.res.calls = <<>>

\* ----------------------------------------------------------------- C12
\* C12: an operation that passes validation hands the caller's positional
\* parameters to the driver unchanged: as many, in the same order.
C12_ParametersForwardedUnchanged ==
  (Returned(Ops) /\ Len(last.args) >= 1) =>
    \A i \in 1..Len(last.res.calls) :
      last.res.calls[i].fn \in {"StmtExec", "Exec", "Query", "QueryRow"}
        => last.res.calls[i].params = last.args

\* ----------------------------------------------------------------- C16
\* C16: UpdateSingleRow leaves no prepared statement open: whatever calls
\* were made, as many statements are open on the handle as at the start.
C16_NoStatementLeft ==
  /\ openStmts = 0
  /\ Returned({"UpdateSingleRow"}) => StmtsLeftOpen(last.res.calls) = 0

\* ----------------------------------------------------------------- C13
ScanOneOps ==
  {"SingleRowScanner", "SingleRowScannerWithArgs",
   "EphmrlSingleRowScanner", "EphmrlSingleRowScannerWithArgs"}

\* C13: a scan-one call that passes validation makes exactly one QueryRow call
\* on the handle and returns a non-nil single-row cursor with a nil error
\* whatever the driver answered; the driver's failure, or the missing row,
\* shows only when the caller scans the cursor.
C13_ScanOneAlwaysReturnsCursor ==
  (Returned(ScanOneOps) /\ last.res.err \notin ValidationErrs) =>
    /\ Len(last.res.calls) = 1
    /\ last.res.calls[1].fn = "QueryRow"
    /\ last.res.calls[1].db = last.db
    /\ last.res.ret.kind = "Row"
    /\ last.res.err = Nil
    /\ scan.done =>
         /\ last.drv.queryRow # Nil => scan.err = last.drv.queryRow
         /\ (last.drv.queryRow = Nil /\ ~scan.found) => scan.err = ErrNoRows
         /\ (last.drv.queryRow = Nil /\ scan.found) => scan.err = Nil

C13_Witness ==
  /\ Returned(ScanOneOps)
  /\ last.drv.queryRow \in DriverErrs
  /\ last.res.ret.kind = "Row"
  /\ last.res.err = Nil
  /\ scan.done
  /\ scan.err = last.drv.queryRow

\* ----------------------------------------------------------------- C14
\* C14: ScanStruct, called with a struct value of at least one field, returns
\* an error whenever its inner SingleRowScannerWithArgs call fails, never goes
\* on to scan a nil cursor (it does not end abnormally), and returns a nil
\* error only after one successful row scan per field.
C14_ScanStructReturnsInnerError ==
  (Returned({"ScanStruct"}) /\ Len(last.args) >= 1) =>
    /\ ~last.res.exited
    /\ SingleRowScannerWithArgs(ac, <<>>, <<>>, last.drv).err # Nil
         => last.res.err # Nil
    /\ last.res.err = Nil =>
         Len(SelectSeq(last.res.calls, LAMBDA c : c.fn = "QueryRow" /\ c.err = Nil))
           = Len(last.args)

\* ----------------------------------------------------------------- C15
\* What the method op gives when it runs alone, from start to end, on the
\* Assister a with the driver answering drv.
AloneResult(op, a, query, args, drv) ==
  CASE op = "UpdateSingleRow" -> UpdateSingleRow(a, query, args, drv)
    [] op = "SingleRowScanner" -> SingleRowScanner(a, query, drv)
    [] op = "SingleRowScannerWithArgs" -> SingleRowScannerWithArgs(a, query, args, drv)
    [] op = "MultipleRowScanner" -> MultipleRowScanner(a, query, drv)
    [] op = "MultipleRowScannerWithArgs" ->
         MultipleRowScannerWithArgs(a, query, args, drv)

\* C15: operations are stateless with respect to the library: whatever calls
\* came before on the same Assister and whatever calls of other goroutines
\* are interleaved with it, a call ends with the value, the error and the
\* driver requests it would have had alone on the Assister as New built it,
\* given its own query, arguments and driver answers; and the Assister is
\* never written.
C15_OutcomeDependsOnOwnCallOnly ==
  /\ ac = New(suppliedDB)
  /\ \A t \in Threads :
       frames[t].at = "ret" =>
         LET f == frames[t]
             r == AloneResult(f.op, New(suppliedDB), f.query, f.args, f.drv)
         IN  /\ f.ret = r.ret
             /\ f.err = r.err
             /\ f.calls = r.calls

C15_Witness ==
  /\ frames["t1"].at = "ret"
  /\ frames["t1"].op = "UpdateSingleRow"
  /\ Len(frames["t1"].calls) = 3
  /\ frames["t1"].err = Nil
  /\ frames["t2"].at = "query"
  /\ frames["t2"].op = "MultipleRowScannerWithArgs"
  /\ openStmts = 2

====
